---- MODULE Spec2Model ----
(***************************************************************************)
(* Smart Redirect Processor (smart_redirect_processor.py): a Burp HTTP     *)
(* listener that repairs 3xx responses carrying the GZIP-compressed target *)
(* page.  Header lines and bodies are sequences of byte values 0..255, so  *)
(* that splitting, pattern search, case folding and inflation are computed *)
(* on the bytes the code sees.                                             *)
(***************************************************************************)
EXTENDS Integers, Sequences, FiniteSets, TLC

(***************************************************************************)
(* Literals of the source, as byte sequences.                              *)
(***************************************************************************)
\* '<html><head><title>Object moved</title></head><body>'
HTML_OPEN ==
    <<60, 104, 116, 109, 108, 62, 60, 104, 101, 97, 100, 62, 60, 116, 105, 116, 108, 101, 62, 79, 98, 106, 101, 99, 116, 32, 109, 111, 118, 101, 100, 60, 47, 116, 105, 116, 108, 101, 62, 60, 47, 104, 101, 97, 100, 62, 60, 98, 111, 100, 121, 62>>
\* '</body></html>'
HTML_CLOSE ==
    <<60, 47, 98, 111, 100, 121, 62, 60, 47, 104, 116, 109, 108, 62>>
\* 'content-type:'
CONTENT_TYPE_PREFIX ==
    <<99, 111, 110, 116, 101, 110, 116, 45, 116, 121, 112, 101, 58>>
\* 'application/x-javascript'
JS_CONTENT_TYPE ==
    <<97, 112, 112, 108, 105, 99, 97, 116, 105, 111, 110, 47, 120, 45, 106, 97, 118, 97, 115, 99, 114, 105, 112, 116>>
\* 'content-encoding:'
CONTENT_ENCODING_PREFIX ==
    <<99, 111, 110, 116, 101, 110, 116, 45, 101, 110, 99, 111, 100, 105, 110, 103, 58>>
\* ' 200 OK'
STATUS_200_OK ==
    <<32, 50, 48, 48, 32, 79, 75>>
\* b'\x1f\x8b'
GZIP_MAGIC_NUMBER ==
    <<31, 139>>
\* len(new_body) > 1000
BODY_THRESHOLD == 1000
\* IBurpExtenderCallbacks.TOOL_PROXY, read as self._callbacks.TOOL_PROXY
TOOL_PROXY == 4

(***************************************************************************)
(* Byte-string primitives of the Python runtime used by the handler.       *)
(***************************************************************************)
Min(S) == CHOOSE x \in S : \A y \in S : x <= y

\* str.lower() on one character of a header line (a text string whose
\* characters are 0..255): A-Z and the capitals 192..214, 216..222 change
LowerByte(b) ==
    IF (b >= 65 /\ b <= 90) \/ (b >= 192 /\ b <= 214) \/ (b >= 216 /\ b <= 222)
    THEN b + 32
    ELSE b

\* a function on 1..n as the tuple of its values
Tuple(f, n) == SubSeq(f, 1, n)

\* header.lower()
Lower(s) == Tuple([i \in 1..Len(s) |-> LowerByte(s[i])], Len(s))

\* s[i:] for a 0-based offset i
SliceFrom(s, i) == SubSeq(s, i + 1, Len(s))

\* s[:i] for a 0-based offset i
SliceTo(s, i) == SubSeq(s, 1, i)

\* whether pattern p occurs in s at 0-based offset i
MatchAt(s, p, i) ==
    /\ i >= 0
    /\ i + Len(p) <= Len(s)
    /\ \A k \in 1..Len(p) : s[i + k] = p[k]

\* s.startswith(p)
StartsWith(s, p) == MatchAt(s, p, 0)

\* 0-based offsets >= from at which p occurs in s
Occurrences(s, p, from) ==
    {i \in from..(Len(s) - Len(p)) : s[i + 1] = p[1] /\ MatchAt(s, p, i)}

\* s.find(p, from): first 0-based offset >= from, or -1
\* (CHOOSE r \in {F(x) : x \in {e}} : TRUE is F(e), with e computed once)
FindFrom(s, p, from) ==
    CHOOSE r \in {IF occ = {} THEN -1 ELSE Min(occ) :
                     occ \in {Occurrences(s, p, from)}} : TRUE

\* s.find(p)
Find(s, p) == FindFrom(s, p, 0)

\* p in s
Contains(s, p) == Find(s, p) # -1

(***************************************************************************)
(* Response Classifier: status_line.split(' ', 2) and the candidate test.  *)
(***************************************************************************)
\* status_line.split(' ', 2): at most two cuts, at the first two spaces
Split2(s) ==
    LET i == Find(s, <<32>>)
        j == IF i = -1 THEN -1 ELSE FindFrom(s, <<32>>, i + 1)
    IN  IF i = -1 THEN <<s>>
        ELSE IF j = -1 THEN <<SliceTo(s, i), SliceFrom(s, i + 1)>>
        ELSE <<SliceTo(s, i), SubSeq(s, i + 2, j), SliceFrom(s, j + 1)>>

\* if new_headers: ... len(parts) > 1 and parts[1].startswith('3') and len(new_body) > 1000
IsCandidate(headers, body) ==
    /\ headers # <<>>
    /\ LET parts == Split2(headers[1])
       IN  /\ Len(parts) > 1
           /\ StartsWith(parts[2], <<51>>)
    /\ Len(body) > BODY_THRESHOLD

(***************************************************************************)
(* Action 1: re.sub(r' 3\d{2} .+', ' 200 OK', status_line, 1).             *)
(***************************************************************************)
\* \d without re.UNICODE
IsDigit(b) == b >= 48 /\ b <= 57

\* whether r' 3\d{2} .+' matches at 0-based offset i ('.' is any byte but \n)
StatusPatternAt(s, i) ==
    /\ i + 6 <= Len(s)
    /\ s[i + 1] = 32
    /\ s[i + 2] = 51
    /\ IsDigit(s[i + 3])
    /\ IsDigit(s[i + 4])
    /\ s[i + 5] = 32
    /\ s[i + 6] # 10

\* end (0-based, exclusive) of the greedy '.+' that starts at 0-based offset i
LineEnd(s, i) ==
    LET nl == FindFrom(s, <<10>>, i)
    IN  IF nl = -1 THEN Len(s) ELSE nl

\* re.sub(r' 3\d{2} .+', ' 200 OK', status_line, 1): leftmost match replaced
RewriteStatusLine(s) ==
    LET hits == {i \in 0..(Len(s) - 6) : StatusPatternAt(s, i)}
    IN  IF hits = {} THEN s
        ELSE LET i == Min(hits)
             IN  SliceTo(s, i) \o STATUS_200_OK \o SliceFrom(s, LineEnd(s, i + 5))

(***************************************************************************)
(* Action 2, the Body Carver:                                              *)
(* (?s)<html>...<body>.*?</body></html> removed once.                      *)
(***************************************************************************)
\* The stub search with a greedy interior (.* for .*?): the match runs to
\* the last closing sequence.
StubSpanGreedy(body) ==
    LET Closing(o) ==
            IF o = -1 THEN {} ELSE Occurrences(body, HTML_CLOSE, o + Len(HTML_OPEN))
        Span(o, cs) ==
            IF cs = {} THEN <<-1, -1>>
            ELSE <<o, (CHOOSE c \in cs : \A d \in cs : d <= c) + Len(HTML_CLOSE)>>
        From(o) == CHOOSE r \in {Span(o, cs) : cs \in {Closing(o)}} : TRUE
    IN  CHOOSE r \in {From(o) : o \in {Find(body, HTML_OPEN)}} : TRUE

\* html_redirect_regex.search(new_body): the leftmost match as
\* <<start, end>> (0-based, end exclusive), or <<-1, -1>>.  The interior
\* .*? is minimal, so the match ends at the first closing sequence that
\* starts at or after the end of the opening sequence.
StubSpan(body) ==
    LET Closing(o) ==
            IF o = -1 THEN -1 ELSE FindFrom(body, HTML_CLOSE, o + Len(HTML_OPEN))
        Span(o, c) == IF c = -1 THEN <<-1, -1>> ELSE <<o, c + Len(HTML_CLOSE)>>
        From(o) == CHOOSE r \in {Span(o, c) : c \in {Closing(o)}} : TRUE
    IN  CHOOSE r \in {From(o) : o \in {Find(body, HTML_OPEN)}} : TRUE

\* if html_redirect_regex.search(new_body): new_body = html_redirect_regex.sub(b'', new_body, 1)
Carve(body) ==
    CHOOSE r \in {IF span[1] = -1 THEN body
                  ELSE SliceTo(body, span[1]) \o SliceFrom(body, span[2]) :
                     span \in {StubSpan(body)}} : TRUE

(***************************************************************************)
(* Action 3, the Payload Decompressor: the content-type signal.            *)
(***************************************************************************)
\* header.lower().startswith("content-type:") and "application/x-javascript" in header.lower()
IsJsHeader(header) ==
    /\ StartsWith(Lower(header), CONTENT_TYPE_PREFIX)
    /\ Contains(Lower(header), JS_CONTENT_TYPE)

\* for header in new_headers: ... is_js_target = True; break
IsJsTarget(headers) == \E i \in 1..Len(headers) : IsJsHeader(headers[i])

\* h.lower().startswith("content-encoding:")
IsContentEncoding(header) == StartsWith(Lower(header), CONTENT_ENCODING_PREFIX)

\* [h for h in new_headers if not h.lower().startswith("content-encoding:")]
StripContentEncoding(headers) == SelectSeq(headers, LAMBDA h : ~IsContentEncoding(h))

(***************************************************************************)
(* gzip.GzipFile(fileobj=io.BytesIO(data)).read(): the gzip container      *)
(* (RFC 1952) around a deflate stream (RFC 1951), with its CRC-32 and      *)
(* length check.  32-bit words are tuples of 32 bits, least significant    *)
(* first.  The inflater reads stored blocks (type 0), blocks coded with    *)
(* the fixed Huffman codes (type 1) and with codes sent in the block       *)
(* (type 2), and rejects the reserved type 3.                              *)
(***************************************************************************)
\* the bits of n (0 <= n < 2^31), least significant first, as a 32-bit word
Word(n) == Tuple([k \in 1..32 |-> IF k = 32 THEN 0 ELSE (n \div (2 ^ (k - 1))) % 2], 32)

XorWord(a, b) == Tuple([k \in 1..32 |-> (a[k] + b[k]) % 2], 32)

ShiftRight(a) == Tuple([k \in 1..32 |-> IF k = 32 THEN 0 ELSE a[k + 1]], 32)

\* the reflected CRC-32 polynomial 0xEDB88320
CrcPoly ==
    <<0,0,0,0,0,1,0,0, 1,1,0,0,0,0,0,1, 0,0,0,1,1,1,0,1, 1,0,1,1,0,1,1,1>>

\* byte k (0..3, little-endian) of a 32-bit word
WordByte(w, k) ==
    w[8*k + 1] + 2 * w[8*k + 2] + 4 * w[8*k + 3] + 8 * w[8*k + 4]
    + 16 * w[8*k + 5] + 32 * w[8*k + 6] + 64 * w[8*k + 7] + 128 * w[8*k + 8]

\* struct.pack("<I", w)
WordBytes(w) == <<WordByte(w, 0), WordByte(w, 1), WordByte(w, 2), WordByte(w, 3)>>

RECURSIVE CrcRounds(_, _)
\* n rounds of: shift right, and xor the polynomial in when a 1 fell out
CrcRounds(w, n) ==
    IF n = 0 THEN w
    ELSE CHOOSE r \in {CrcRounds(x, n - 1) :
                          x \in {IF w[1] = 1 THEN XorWord(ShiftRight(w), CrcPoly)
                                 ELSE ShiftRight(w)}} : TRUE

\* zlib's table: entry i + 1 is byte value i after eight rounds, as 4 bytes
CrcTable == Tuple([i \in 1..256 |-> WordBytes(CrcRounds(Word(i - 1), 8))], 256)

\* bit k (value 2^k) of byte b
Bit(b, k) == (b \div (2 ^ k)) % 2

\* a ^ b on bytes
XorByte(a, b) ==
    ((Bit(a, 0) + Bit(b, 0)) % 2) + 2 * ((Bit(a, 1) + Bit(b, 1)) % 2)
    + 4 * ((Bit(a, 2) + Bit(b, 2)) % 2) + 8 * ((Bit(a, 3) + Bit(b, 3)) % 2)
    + 16 * ((Bit(a, 4) + Bit(b, 4)) % 2) + 32 * ((Bit(a, 5) + Bit(b, 5)) % 2)
    + 64 * ((Bit(a, 6) + Bit(b, 6)) % 2) + 128 * ((Bit(a, 7) + Bit(b, 7)) % 2)

\* crc = table[(crc ^ byte) & 0xff] ^ (crc >> 8), on the register's 4 bytes
CrcStep(reg, byte) ==
    CHOOSE r \in {<<XorByte(reg[2], t[1]), XorByte(reg[3], t[2]), XorByte(reg[4], t[3]), t[4]>> :
                     t \in {CrcTable[XorByte(reg[1], byte) + 1]}} : TRUE

RECURSIVE CrcFeed(_, _, _, _)
\* the CRC register after bytes lo..hi of data, fed in order (computed by
\* halves; CHOOSE r \in {F(x) : x \in {e}} : TRUE is F(e), e computed once)
CrcFeed(reg, data, lo, hi) ==
    IF lo > hi THEN reg
    ELSE IF lo = hi THEN CHOOSE r \in {CrcStep(reg, byte) : byte \in {data[lo]}} : TRUE
    ELSE CHOOSE r \in {CrcFeed(half, data, ((lo + hi) \div 2) + 1, hi) :
                          half \in {CrcFeed(reg, data, lo, (lo + hi) \div 2)}} : TRUE

\* zlib.crc32(data) & 0xffffffff, as its four little-endian bytes
Crc32Bytes(data) ==
    CHOOSE c \in {<<255 - r[1], 255 - r[2], 255 - r[3], 255 - r[4]>> :
                     r \in {CrcFeed(<<255, 255, 255, 255>>, data, 1, Len(data))}} : TRUE

\* len(data) & 0xffffffff, as its four little-endian bytes
SizeBytes(data) ==
    LET n == Len(data)
    IN  <<n % 256, (n \div 256) % 256, (n \div 65536) % 256, (n \div 16777216) % 256>>

\* bit k (value 2^k) of flag byte f
FlagSet(f, k) == Bit(f, k) = 1

\* 0-based offset just after the zero byte that ends a name or comment
\* starting at pos (the end of data when there is none)
SkipZeroTerminated(data, pos) ==
    LET z == FindFrom(data, <<0>>, pos)
    IN  IF z = -1 THEN Len(data) ELSE z + 1

\* The Python runtimes the listener is run on: Python 2.7, where the host's
\* strings (header lines, URLs) are unicode objects as Jython maps
\* java.lang.String, and Python 3.  Their gzip modules differ where a
\* stream ends early, and str.format differs on non-ASCII text.
Runtimes == {"python2", "python3"}

\* Python 3 _read_gzip_header at 0-based offset pos, the magic number read:
\* the fixed header, the extra field and the header CRC are read exactly
\* (EOFError when cut short), a name or comment may end with the data
ReadGzipHeader3(data, pos) ==
    IF pos + 10 > Len(data) THEN [kind |-> "EOFError"]
    ELSE IF data[pos + 3] # 8 THEN [kind |-> "IOError"]
    ELSE
      LET flag == data[pos + 4]
          p0 == pos + 10
          \* -1: the data ends within a field read exactly
          p1 == IF ~FlagSet(flag, 2) THEN p0
                ELSE IF p0 + 2 > Len(data) THEN -1
                ELSE IF p0 + 2 + data[p0 + 1] + 256 * data[p0 + 2] > Len(data) THEN -1
                ELSE p0 + 2 + data[p0 + 1] + 256 * data[p0 + 2]
          p2 == IF p1 # -1 /\ FlagSet(flag, 3) THEN SkipZeroTerminated(data, p1) ELSE p1
          p3 == IF p2 # -1 /\ FlagSet(flag, 4) THEN SkipZeroTerminated(data, p2) ELSE p2
          p4 == IF p3 # -1 /\ FlagSet(flag, 1)
                THEN IF p3 + 2 > Len(data) THEN -1 ELSE p3 + 2
                ELSE p3
      IN  IF p4 = -1 THEN [kind |-> "EOFError"] ELSE [kind |-> "ok", next |-> p4]

\* Python 2.7 GzipFile._read_gzip_header at 0-based offset pos, the magic
\* number read: ord() of a missing byte is a TypeError, read32 of fewer
\* than four bytes a struct.error, every other read may come back short
ReadGzipHeader2(data, pos) ==
    IF pos + 3 > Len(data) THEN [kind |-> "TypeError"]
    ELSE IF data[pos + 3] # 8 THEN [kind |-> "IOError"]
    ELSE IF pos + 4 > Len(data) THEN [kind |-> "TypeError"]
    ELSE IF pos + 8 > Len(data) THEN [kind |-> "struct.error"]
    ELSE
      LET flag == data[pos + 4]
          AtMost(p) == IF p > Len(data) THEN Len(data) ELSE p
          p0 == AtMost(pos + 10)
          \* -1: a length byte of the extra field is missing
          p1 == IF ~FlagSet(flag, 2) THEN p0
                ELSE IF p0 + 2 > Len(data) THEN -1
                ELSE AtMost(p0 + 2 + data[p0 + 1] + 256 * data[p0 + 2])
          p2 == IF p1 # -1 /\ FlagSet(flag, 3) THEN SkipZeroTerminated(data, p1) ELSE p1
          p3 == IF p2 # -1 /\ FlagSet(flag, 4) THEN SkipZeroTerminated(data, p2) ELSE p2
          p4 == IF p3 # -1 /\ FlagSet(flag, 1) THEN AtMost(p3 + 2) ELSE p3
      IN  IF p4 = -1 THEN [kind |-> "TypeError"] ELSE [kind |-> "ok", next |-> p4]

\* _read_gzip_header at 0-based offset pos (not the end of the data):
\* [kind |-> "ok", next |-> offset of the deflate stream] or the exception
ReadGzipHeader(rt, data, pos) ==
    IF ~MatchAt(data, GZIP_MAGIC_NUMBER, pos) THEN [kind |-> "IOError"]
    ELSE IF rt = "python3" THEN ReadGzipHeader3(data, pos)
    ELSE ReadGzipHeader2(data, pos)

\* bit bp (0-based; within a byte the least significant bit comes first)
BitAt(data, bp) == (data[(bp \div 8) + 1] \div (2 ^ (bp % 8))) % 2

\* the number of bits data holds
BitLen(data) == 8 * Len(data)

RECURSIVE BitsAt(_, _, _)
\* the n-bit integer that starts at bit bp, least significant bit first
BitsAt(data, bp, n) ==
    IF n = 0 THEN 0 ELSE BitAt(data, bp) + 2 * BitsAt(data, bp + 1, n - 1)

RECURSIVE KraftSum(_, _)
\* sum over code lengths l..15 of count[l] * 2^(15 - l)
KraftSum(count, l) ==
    IF l > 15 THEN 0 ELSE count[l] * (2 ^ (15 - l)) + KraftSum(count, l + 1)

\* inflate_table: the canonical Huffman code of the code lengths lens
\* (lens[s + 1] is the length of symbol s, 0 for an unused symbol): how many
\* codes each length has, the symbols in code order, the longest length,
\* and the code space left over (negative: over-subscribed)
HuffmanTable(lens) ==
    LET symbols == Tuple([s \in 1..Len(lens) |-> s - 1], Len(lens))
        OfLen(ls, l) == SelectSeq(symbols, LAMBDA s : ls[s + 1] = l)
        Table(ls, count) ==
            LET used == {l \in 1..15 : count[l] > 0}
            IN  [count |-> count,
                 syms |-> OfLen(ls, 1) \o OfLen(ls, 2) \o OfLen(ls, 3) \o OfLen(ls, 4)
                          \o OfLen(ls, 5) \o OfLen(ls, 6) \o OfLen(ls, 7) \o OfLen(ls, 8)
                          \o OfLen(ls, 9) \o OfLen(ls, 10) \o OfLen(ls, 11)
                          \o OfLen(ls, 12) \o OfLen(ls, 13) \o OfLen(ls, 14)
                          \o OfLen(ls, 15),
                 max |-> IF used = {} THEN 0
                         ELSE CHOOSE l \in used : \A k \in used : k <= l,
                 left |-> 32768 - KraftSum(count, 1)]
        Counted(ls) ==
            CHOOSE t \in {Table(ls, c) :
                             c \in {Tuple([l \in 1..15 |-> Len(OfLen(ls, l))], 15)}} : TRUE
    IN  CHOOSE t \in {Counted(ls) : ls \in {lens}} : TRUE

RECURSIVE DecodeFrom(_, _, _, _, _, _, _)
\* one more code bit: len bits read so far make code, first is the first
\* code of this length and index the number of shorter codes
DecodeFrom(data, bp, tab, len, code, first, index) ==
    IF len > tab.max THEN [kind |-> "invalid", next |-> bp]
    ELSE IF bp >= BitLen(data) THEN [kind |-> "truncated"]
    ELSE
      LET c == code + BitAt(data, bp)
          cnt == tab.count[len]
      IN  IF c - cnt < first
          THEN [kind |-> "ok", sym |-> tab.syms[index + (c - first) + 1], next |-> bp + 1]
          ELSE DecodeFrom(data, bp + 1, tab, len + 1, 2 * c, 2 * (first + cnt), index + cnt)

\* the symbol whose code starts at bit bp: "ok" with the symbol, "invalid"
\* when the bits are no code of the table, "truncated" when the data ends
\* within the code (a table without any code rejects one bit)
DecodeSymbol(data, bp, tab) ==
    IF tab.max = 0
    THEN IF bp >= BitLen(data) THEN [kind |-> "truncated"]
         ELSE [kind |-> "invalid", next |-> bp + 1]
    ELSE DecodeFrom(data, bp, tab, 1, 0, 0, 0)

\* base length and number of extra bits of the length symbols 257..285
LengthBase ==
    <<3, 4, 5, 6, 7, 8, 9, 10, 11, 13, 15, 17, 19, 23, 27, 31, 35, 43, 51, 59,
      67, 83, 99, 115, 131, 163, 195, 227, 258>>

LengthExtra ==
    <<0, 0, 0, 0, 0, 0, 0, 0, 1, 1, 1, 1, 2, 2, 2, 2, 3, 3, 3, 3,
      4, 4, 4, 4, 5, 5, 5, 5, 0>>

\* base distance and number of extra bits of the distance symbols 0..29
DistBase ==
    <<1, 2, 3, 4, 5, 7, 9, 13, 17, 25, 33, 49, 65, 97, 129, 193, 257, 385, 513,
      769, 1025, 1537, 2049, 3073, 4097, 6145, 8193, 12289, 16385, 24577>>

DistExtra ==
    <<0, 0, 0, 0, 1, 1, 2, 2, 3, 3, 4, 4, 5, 5, 6, 6, 7, 7, 8, 8,
      9, 9, 10, 10, 11, 11, 12, 12, 13, 13>>

\* the fixed literal/length code: 8, 9, 7 and 8 bits for 0..143, 144..255,
\* 256..279 and 280..287
FixedLit ==
    HuffmanTable(Tuple([s \in 1..288 |-> IF s <= 144 THEN 8 ELSE IF s <= 256 THEN 9
                                         ELSE IF s <= 280 THEN 7 ELSE 8], 288))

\* the fixed distance code: 5 bits for each of 0..31
FixedDist == HuffmanTable(Tuple([s \in 1..32 |-> 5], 32))

\* out followed by len bytes copied from dist bytes back (the copy may
\* overlap what it writes)
CopyMatch(out, len, dist) ==
    out \o Tuple([i \in 1..len |-> out[Len(out) - dist + ((i - 1) % dist) + 1]], len)

\* One symbol of a Huffman-coded block at bit bp: a literal or a match
\* ("more"), the end of the block ("ok"), or an error kind ("truncated",
\* when the data ends within the symbol, keeps the output so far)
CodesStep(data, bp, out, lit, dist) ==
    LET AfterDist(len, d) ==
            IF d.kind = "truncated" THEN [kind |-> "truncated", out |-> out]
            ELSE IF d.kind = "invalid" \/ d.sym > 29 THEN [kind |-> "zlib.error"]
            ELSE
              LET eb == DistExtra[d.sym + 1]
                  back == DistBase[d.sym + 1] + BitsAt(data, d.next, eb)
              IN  IF d.next + eb > BitLen(data) THEN [kind |-> "truncated", out |-> out]
                  ELSE IF back > Len(out) THEN [kind |-> "zlib.error"]
                  ELSE [kind |-> "more", next |-> d.next + eb,
                        out |-> CopyMatch(out, len, back)]
        AfterLit(l) ==
            IF l.kind = "truncated" THEN [kind |-> "truncated", out |-> out]
            ELSE IF l.kind = "invalid" THEN [kind |-> "zlib.error"]
            ELSE IF l.sym < 256
                 THEN [kind |-> "more", next |-> l.next, out |-> Append(out, l.sym)]
            ELSE IF l.sym = 256 THEN [kind |-> "ok", next |-> l.next, out |-> out]
            ELSE IF l.sym > 285 THEN [kind |-> "zlib.error"]
            ELSE
              LET eb == LengthExtra[l.sym - 256]
              IN  IF l.next + eb > BitLen(data) THEN [kind |-> "truncated", out |-> out]
                  ELSE CHOOSE r \in
                         {AfterDist(LengthBase[l.sym - 256] + BitsAt(data, l.next, eb), d) :
                             d \in {DecodeSymbol(data, l.next + eb, dist)}} : TRUE
    IN  CHOOSE r \in {AfterLit(l) : l \in {DecodeSymbol(data, bp, lit)}} : TRUE

RECURSIVE RunCodes(_, _, _, _, _)
\* at most n symbols of a Huffman-coded block from state st on (by halves)
RunCodes(data, st, lit, dist, n) ==
    IF st.kind # "more" \/ n = 0 THEN st
    ELSE IF n = 1 THEN CodesStep(data, st.next, st.out, lit, dist)
    ELSE CHOOSE r \in {RunCodes(data, s, lit, dist, n - (n \div 2)) :
                          s \in {RunCodes(data, st, lit, dist, n \div 2)}} : TRUE

\* the symbols of a Huffman-coded block from state st on, to its end (a
\* symbol takes at least one bit)
InflateCodes(data, st, lit, dist) == RunCodes(data, st, lit, dist, BitLen(data))

\* the order in which a dynamic block sends the code length code lengths
CodeLengthOrder == <<16, 17, 18, 0, 8, 7, 9, 6, 10, 5, 11, 4, 12, 3, 13, 2, 14, 1, 15>>

\* One code length symbol at bit bp, lens being the n wanted code lengths
\* read so far: a length, or a repeat of the last length or of zero
LengthsStep(data, bp, lens, n, tab) ==
    LET Repeat(d, value, base, eb) ==
            LET times == base + BitsAt(data, d.next, eb)
            IN  IF d.next + eb > BitLen(data) THEN [kind |-> "truncated"]
                ELSE IF value < 0 \/ Len(lens) + times > n THEN [kind |-> "zlib.error"]
                ELSE [kind |-> "more", next |-> d.next + eb,
                      lens |-> lens \o Tuple([i \in 1..times |-> value], times)]
        After(d) ==
            IF d.kind = "truncated" THEN [kind |-> "truncated"]
            ELSE
              LET sym == IF d.kind = "invalid" THEN 0 ELSE d.sym
              IN  IF sym < 16
                  THEN [kind |-> "more", next |-> d.next, lens |-> Append(lens, sym)]
                  ELSE IF sym = 16
                  THEN Repeat(d, IF lens = <<>> THEN -1 ELSE lens[Len(lens)], 3, 2)
                  ELSE IF sym = 17 THEN Repeat(d, 0, 3, 3)
                  ELSE Repeat(d, 0, 11, 7)
    IN  CHOOSE r \in {After(d) : d \in {DecodeSymbol(data, bp, tab)}} : TRUE

RECURSIVE RunLengths(_, _, _, _, _)
\* at most k code length symbols from state st on (by halves)
RunLengths(data, st, n, tab, k) ==
    IF st.kind # "more" \/ Len(st.lens) = n \/ k = 0 THEN st
    ELSE IF k = 1 THEN LengthsStep(data, st.next, st.lens, n, tab)
    ELSE CHOOSE r \in {RunLengths(data, s, n, tab, k - (k \div 2)) :
                          s \in {RunLengths(data, st, n, tab, k \div 2)}} : TRUE

\* the n code lengths of a dynamic block from state st on (a symbol gives
\* at least one length)
ReadLengths(data, st, n, tab) ==
    LET end == RunLengths(data, st, n, tab, n)
    IN  IF end.kind # "more" THEN end
        ELSE [kind |-> "ok", next |-> end.next, lens |-> end.lens]

\* The header of a dynamic block at bit bp: the literal/length and distance
\* codes it sends, or an error kind.  A code must use its code space up
\* exactly, but for a single code of one bit and an empty distance code.
ReadDynamic(data, bp) ==
    IF bp + 14 > BitLen(data) THEN [kind |-> "truncated"]
    ELSE
      LET nlen == BitsAt(data, bp, 5) + 257
          ndist == BitsAt(data, bp + 5, 5) + 1
          ncode == BitsAt(data, bp + 10, 4) + 4
          Sent(s) == CHOOSE k \in 1..19 : CodeLengthOrder[k] = s
          clens == Tuple([s \in 1..19 |->
                            IF Sent(s - 1) <= ncode
                            THEN BitsAt(data, bp + 14 + 3 * (Sent(s - 1) - 1), 3)
                            ELSE 0], 19)
          Tables(ls) ==
              IF ls.kind # "ok" THEN [kind |-> ls.kind]
              ELSE IF ls.lens[257] = 0 THEN [kind |-> "zlib.error"]
              ELSE
                LET Codes(lit, dist) ==
                        IF \/ lit.left < 0
                           \/ lit.left > 0 /\ lit.max # 1
                           \/ dist.left < 0
                           \/ dist.left > 0 /\ dist.max \notin {0, 1}
                        THEN [kind |-> "zlib.error"]
                        ELSE [kind |-> "ok", next |-> ls.next, lit |-> lit, dist |-> dist]
                IN  CHOOSE r \in
                      {Codes(lit, dist) :
                          lit \in {HuffmanTable(SubSeq(ls.lens, 1, nlen))},
                          dist \in {HuffmanTable(SubSeq(ls.lens, nlen + 1, nlen + ndist))}} : TRUE
          Lengths(ctab) ==
              IF ctab.left < 0 \/ (ctab.left > 0 /\ ctab.max # 0)
              THEN [kind |-> "zlib.error"]
              ELSE CHOOSE r \in
                     {Tables(ls) :
                         ls \in {ReadLengths(data, [kind |-> "more", next |-> bp + 14 + 3 * ncode,
                                                    lens |-> <<>>], nlen + ndist, ctab)}} : TRUE
      IN  IF nlen > 286 \/ ndist > 30 THEN [kind |-> "zlib.error"]
          ELSE IF bp + 14 + 3 * ncode > BitLen(data) THEN [kind |-> "truncated"]
          ELSE CHOOSE r \in {Lengths(ctab) : ctab \in {HuffmanTable(clens)}} : TRUE

RECURSIVE InflateBlocks(_, _, _)
\* the deflate blocks from bit bp on, up to and including the final one;
\* when the data ends before that, "truncated" with the output so far (a
\* stored block gives the bytes it has)
InflateBlocks(data, bp, out) ==
    IF bp + 3 > BitLen(data) THEN [kind |-> "truncated", out |-> out]
    ELSE
      LET bfinal == BitAt(data, bp)
          btype == BitsAt(data, bp + 1, 2)
          pos == (bp + 3 + 7) \div 8
          Stored ==
              IF pos + 4 > Len(data) THEN [kind |-> "truncated", out |-> out]
              ELSE
                LET len == data[pos + 1] + 256 * data[pos + 2]
                    nlen == data[pos + 3] + 256 * data[pos + 4]
                IN  IF len + nlen # 65535 THEN [kind |-> "zlib.error"]
                    ELSE IF pos + 4 + len > Len(data)
                    THEN [kind |-> "truncated",
                          out |-> out \o SubSeq(data, pos + 5, Len(data))]
                    ELSE [kind |-> "ok", next |-> 8 * (pos + 4 + len),
                          out |-> out \o SubSeq(data, pos + 5, pos + 4 + len)]
          Dynamic(h) ==
              IF h.kind = "truncated" THEN [kind |-> "truncated", out |-> out]
              ELSE IF h.kind # "ok" THEN [kind |-> h.kind]
              ELSE InflateCodes(data, [kind |-> "more", next |-> h.next, out |-> out],
                                h.lit, h.dist)
          Finish(r) ==
              IF r.kind = "truncated" THEN [kind |-> "truncated", out |-> r.out]
              ELSE IF r.kind # "ok" THEN [kind |-> r.kind]
              ELSE IF bfinal = 1
                   THEN [kind |-> "ok", out |-> r.out, next |-> (r.next + 7) \div 8]
                   ELSE InflateBlocks(data, r.next, r.out)
      IN  IF btype = 3 THEN [kind |-> "zlib.error"]
          ELSE CHOOSE res \in
                 {Finish(r) :
                     r \in {IF btype = 0 THEN Stored
                            ELSE IF btype = 1
                            THEN InflateCodes(data, [kind |-> "more", next |-> bp + 3,
                                                     out |-> out], FixedLit, FixedDist)
                            ELSE CHOOSE x \in {Dynamic(h) : h \in {ReadDynamic(data, bp + 3)}} : TRUE}}
                 : TRUE

\* zlib.decompressobj(-zlib.MAX_WBITS) fed data from 0-based offset pos:
\* [kind |-> "ok", out, next |-> offset after the final block], or
\* "zlib.error", or "truncated" with the output decompress() gave so far
Inflate(data, pos, out) ==
    CHOOSE r \in {InflateBlocks(data, bp, out) : bp \in {8 * pos}} : TRUE

\* _read_eof with the file at 0-based offset pos: the eight bytes there
\* against the CRC-32 and the size of out.  Fewer than eight bytes are an
\* EOFError for Python 3's _read_exact and a struct.error for Python 2.7's
\* read32.
ReadEof(rt, data, pos, out) ==
    IF pos + 8 > Len(data)
    THEN IF rt = "python3" THEN "EOFError" ELSE "struct.error"
    ELSE IF SubSeq(data, pos + 1, pos + 4) # Crc32Bytes(out) THEN "IOError"
    ELSE IF SubSeq(data, pos + 5, pos + 8) # SizeBytes(out) THEN "IOError"
    ELSE "ok"

\* _read_eof's "consume all zero bytes": first 0-based offset >= pos whose
\* byte is not zero (the end of data when there is none)
SkipZeroPadding(data, pos) ==
    LET nz == {i \in pos..(Len(data) - 1) : data[i + 1] # 0}
    IN  IF nz = {} THEN Len(data) ELSE Min(nz)

RECURSIVE ReadMembers(_, _, _, _)
\* GzipFile.read(): every member from 0-based offset pos on, concatenated:
\* [kind |-> "ok", out] or the exception raised.  When the data ends before
\* the deflate stream does, Python 3 raises EOFError.  Python 2.7 only
\* sees the end of the data: _read() then calls _read_eof(), which steps
\* eight bytes back from the end and takes what it finds there for the
\* trailer, and when that matches the output so far the read returns it.
\* It does the same when the stream ends exactly at the end of the data.
ReadMembers(rt, data, pos, out) ==
    LET hdr == ReadGzipHeader(rt, data, pos)
        Trailer(inf, at, more) ==
            LET eof == ReadEof(rt, data, at, inf.out)
                rest == SkipZeroPadding(data, at + 8)
            IN  IF eof # "ok" THEN [kind |-> eof]
                ELSE IF ~more \/ rest >= Len(data)
                     THEN [kind |-> "ok", out |-> out \o inf.out]
                     ELSE ReadMembers(rt, data, rest, out \o inf.out)
        AfterInflate(inf) ==
            IF inf.kind = "zlib.error" THEN [kind |-> "zlib.error"]
            ELSE IF rt = "python3"
            THEN IF inf.kind = "truncated" THEN [kind |-> "EOFError"]
                 ELSE Trailer(inf, inf.next, TRUE)
            ELSE IF inf.kind = "ok" /\ inf.next < Len(data)
                 THEN Trailer(inf, inf.next, TRUE)
                 ELSE Trailer(inf, IF Len(data) < 8 THEN 0 ELSE Len(data) - 8, FALSE)
    IN  IF pos >= Len(data) THEN [kind |-> "ok", out |-> out]
        ELSE IF hdr.kind # "ok" THEN [kind |-> hdr.kind]
        ELSE CHOOSE r \in {AfterInflate(inf) : inf \in {Inflate(data, hdr.next, <<>>)}} : TRUE

\* gzip.GzipFile(fileobj=io.BytesIO(gzipped_data_bytes)).read() on runtime
\* rt: [kind |-> "ok", out] or [kind |-> the exception class raised]
GzipRead(rt, data) == CHOOSE r \in {ReadMembers(rt, d, 0, <<>>) : d \in {data}} : TRUE

\* except IOError as e:
Caught(exc) == exc = "IOError"

(***************************************************************************)
(* The diagnostics: "...{}...".format(text) with text a string of the host *)
(***************************************************************************)
\* the characters strip() takes for white space
IsSpace(b) == b \in {9, 10, 11, 12, 13, 28, 29, 30, 31, 32, 133, 160}

\* text.strip()
Strip(text) ==
    LET kept == {i \in 1..Len(text) : ~IsSpace(text[i])}
    IN  IF kept = {} THEN <<>>
        ELSE SubSeq(text, Min(kept), CHOOSE i \in kept : \A j \in kept : j <= i)

\* whether "...{}...".format(text) raises UnicodeEncodeError: on Python 2.7
\* the str format string makes format() encode the unicode text as ASCII
FormatRaises(rt, text) == rt = "python2" /\ \E i \in 1..Len(text) : text[i] > 127

(***************************************************************************)
(* processHttpMessage run from start to end on one response: the decision  *)
(* and the message content the host is left with (Rewritten: setResponse   *)
(* was called).                                                            *)
(***************************************************************************)
ProcessAlone(rt, toolFlag, messageIsRequest, headers, body) ==
    IF messageIsRequest \/ toolFlag # TOOL_PROXY \/ ~IsCandidate(headers, body)
    THEN [decision |-> "Unchanged", headers |-> headers, body |-> body]
    ELSE IF FormatRaises(rt, Strip(headers[1]))
    THEN [decision |-> "Unchanged", headers |-> headers, body |-> body]
    ELSE
      LET hs == [headers EXCEPT ![1] = RewriteStatusLine(headers[1])]
          carved == Carve(body)
          start_index == Find(carved, GZIP_MAGIC_NUMBER)
      IN  IF ~IsJsTarget(hs) \/ start_index = -1
          THEN [decision |-> "Rewritten", headers |-> hs, body |-> carved]
          ELSE
            LET r == GzipRead(rt, SliceFrom(carved, start_index))
            IN  IF r.kind = "ok"
                THEN [decision |-> "Rewritten", headers |-> StripContentEncoding(hs),
                      body |-> r.out]
                ELSE [decision |-> "Unchanged", headers |-> headers, body |-> body]

(***************************************************************************)
(* The intercepted traffic explored: status lines, header lists and bodies *)
(* the host can hand to the listener.                                      *)
(***************************************************************************)
\* 'HTTP/1.1 302 Found'
S_302_Found ==
    <<72, 84, 84, 80, 47, 49, 46, 49, 32, 51, 48, 50, 32, 70, 111, 117, 110, 100>>
\* 'HTTP/1.1 301 Moved Permanently'
S_301_Moved ==
    <<72, 84, 84, 80, 47, 49, 46, 49, 32, 51, 48, 49, 32, 77, 111, 118, 101, 100, 32, 80, 101, 114, 109, 97, 110, 101, 110, 116, 108, 121>>
\* 'HTTP/1.1 200 OK'
S_200_OK ==
    <<72, 84, 84, 80, 47, 49, 46, 49, 32, 50, 48, 48, 32, 79, 75>>
\* 'HTTP/1.1 404 Not Found'
S_404 ==
    <<72, 84, 84, 80, 47, 49, 46, 49, 32, 52, 48, 52, 32, 78, 111, 116, 32, 70, 111, 117, 110, 100>>
\* 'HTTP/1.1 302'
S_302_NoReason ==
    <<72, 84, 84, 80, 47, 49, 46, 49, 32, 51, 48, 50>>
\* 'HTTP/1.1 3000 Found'
S_3000 ==
    <<72, 84, 84, 80, 47, 49, 46, 49, 32, 51, 48, 48, 48, 32, 70, 111, 117, 110, 100>>
\* 'HTTP/1.1 302 Trouv\xe9': a reason phrase with one non-ASCII character
S_302_Latin ==
    <<72, 84, 84, 80, 47, 49, 46, 49, 32, 51, 48, 50, 32, 84, 114, 111, 117, 118, 233>>
\* 'HTTP/1.1 302 Found\xa0': a no-break space at the end
S_302_Nbsp ==
    <<72, 84, 84, 80, 47, 49, 46, 49, 32, 51, 48, 50, 32, 70, 111, 117, 110, 100, 160>>
\* 'HTTP/1.1'
S_OneToken ==
    <<72, 84, 84, 80, 47, 49, 46, 49>>
\* 'Content-Type: application/x-javascript'
H_CT_JS ==
    <<67, 111, 110, 116, 101, 110, 116, 45, 84, 121, 112, 101, 58, 32, 97, 112, 112, 108, 105, 99, 97, 116, 105, 111, 110, 47, 120, 45, 106, 97, 118, 97, 115, 99, 114, 105, 112, 116>>
\* 'content-type: Application/X-JavaScript; charset=utf-8'
H_CT_JS_Mixed ==
    <<99, 111, 110, 116, 101, 110, 116, 45, 116, 121, 112, 101, 58, 32, 65, 112, 112, 108, 105, 99, 97, 116, 105, 111, 110, 47, 88, 45, 74, 97, 118, 97, 83, 99, 114, 105, 112, 116, 59, 32, 99, 104, 97, 114, 115, 101, 116, 61, 117, 116, 102, 45, 56>>
\* 'Content-Type: text/html'
H_CT_HTML ==
    <<67, 111, 110, 116, 101, 110, 116, 45, 84, 121, 112, 101, 58, 32, 116, 101, 120, 116, 47, 104, 116, 109, 108>>
\* 'X-Content-Type: application/x-javascript'
H_XCT_JS ==
    <<88, 45, 67, 111, 110, 116, 101, 110, 116, 45, 84, 121, 112, 101, 58, 32, 97, 112, 112, 108, 105, 99, 97, 116, 105, 111, 110, 47, 120, 45, 106, 97, 118, 97, 115, 99, 114, 105, 112, 116>>
\* 'Content-Encoding: gzip'
H_CE_Gzip ==
    <<67, 111, 110, 116, 101, 110, 116, 45, 69, 110, 99, 111, 100, 105, 110, 103, 58, 32, 103, 122, 105, 112>>
\* 'CONTENT-ENCODING: gzip'
H_CE_Upper ==
    <<67, 79, 78, 84, 69, 78, 84, 45, 69, 78, 67, 79, 68, 73, 78, 71, 58, 32, 103, 122, 105, 112>>
\* 'Location: /app.js'
H_Location ==
    <<76, 111, 99, 97, 116, 105, 111, 110, 58, 32, 47, 97, 112, 112, 46, 106, 115>>
\* 'Vary: Accept-Encoding'
H_Vary ==
    <<86, 97, 114, 121, 58, 32, 65, 99, 99, 101, 112, 116, 45, 69, 110, 99, 111, 100, 105, 110, 103>>
\* 'var x=1;'
P_VarX ==
    <<118, 97, 114, 32, 120, 61, 49, 59>>

\* the first header line returned by response_info.getHeaders()
StatusLine(name) ==
    CASE name = "302 Found"    -> S_302_Found
      [] name = "301 Moved"    -> S_301_Moved
      [] name = "200 OK"       -> S_200_OK
      [] name = "404"          -> S_404
      [] name = "302"          -> S_302_NoReason
      [] name = "3000 Found"   -> S_3000
      [] name = "one token"    -> S_OneToken
      [] name = "302 Latin"    -> S_302_Latin
      [] name = "302 nbsp"     -> S_302_Nbsp

StatusNames ==
    {"302 Found", "301 Moved", "200 OK", "404", "302", "3000 Found", "one token",
     "302 Latin", "302 nbsp"}

\* 'http://x/app.js'
U_Ascii ==
    <<104, 116, 116, 112, 58, 47, 47, 120, 47, 97, 112, 112, 46, 106, 115>>
\* 'http://x/caf\xe9.js': a path with one non-ASCII character
U_Latin ==
    <<104, 116, 116, 112, 58, 47, 47, 120, 47, 99, 97, 102, 233, 46, 106, 115>>

\* request_info.getUrl().toString()
UrlString(name) == IF name = "latin" THEN U_Latin ELSE U_Ascii

\* the header lines after the status line
HeaderLines(name) ==
    CASE name = "js"       -> <<H_CT_JS, H_CE_Gzip, H_Location>>
      [] name = "js mixed" -> <<H_CE_Upper, H_Vary, H_CT_JS_Mixed, H_CE_Gzip, H_Location>>
      [] name = "html"     -> <<H_CT_HTML, H_CE_Gzip, H_Location>>
      [] name = "x-js"     -> <<H_XCT_JS, H_CE_Upper, H_Vary>>
      [] name = "bare"     -> <<>>

HeaderNames == {"js", "js mixed", "html", "x-js", "bare"}

\* whether the named header list carries the JavaScript content-type signal
JsHeaders(name) == name \in {"js", "js mixed"}

\* n filler bytes 'x'
Fill(n) == Tuple([i \in 1..n |-> 120], n)

\* gzip header written by a compressor: magic, deflate, no flags, mtime 0
GzipHeader == <<31, 139, 8, 0, 0, 0, 0, 0, 4, 3>>

\* one final stored deflate block holding payload
StoredBlock(payload) ==
    <<1, Len(payload) % 256, Len(payload) \div 256,
      255 - (Len(payload) % 256), 255 - (Len(payload) \div 256)>> \o payload

\* a gzip member: header, deflate stream, CRC-32 and size of the payload
GzipMember(deflated, payload) ==
    GzipHeader \o deflated \o Crc32Bytes(payload) \o SizeBytes(payload)

\* gzip_compress(payload) without compression: the payload stored
GzipCompress(payload) == GzipMember(StoredBlock(payload), payload)

\* the n bits of v, most significant first (the order of Huffman code bits)
MsbBits(v, n) == Tuple([k \in 1..n |-> (v \div (2 ^ (n - k))) % 2], n)

\* the fixed Huffman code of literal/length symbol s
FixedCode(s) ==
    IF s < 144 THEN MsbBits(48 + s, 8)
    ELSE IF s < 256 THEN MsbBits(400 + (s - 144), 9)
    ELSE IF s < 280 THEN MsbBits(s - 256, 7)
    ELSE MsbBits(192 + (s - 280), 8)

RECURSIVE LiteralBits(_, _)
\* the fixed codes of bytes i..Len(payload) of payload, as literals
LiteralBits(payload, i) ==
    IF i > Len(payload) THEN <<>>
    ELSE FixedCode(payload[i]) \o LiteralBits(payload, i + 1)

\* bits packed into bytes, the first bit least significant, zero-padded
PackBits(bits) ==
    LET n == (Len(bits) + 7) \div 8
        B(k) == IF k <= Len(bits) THEN bits[k] ELSE 0
    IN  Tuple([j \in 1..n |->
                  B(8*j - 7) + 2 * B(8*j - 6) + 4 * B(8*j - 5) + 8 * B(8*j - 4)
                  + 16 * B(8*j - 3) + 32 * B(8*j - 2) + 64 * B(8*j - 1) + 128 * B(8*j)], n)

\* one final block of literals in the fixed Huffman code, then end-of-block
FixedBlock(payload) == PackBits(<<1, 1, 0>> \o LiteralBits(payload, 1) \o FixedCode(256))

\* gzip_compress(payload) with Huffman coding, as a compressor writes a
\* short payload without repeats
GzipCompressHuffman(payload) == GzipMember(FixedBlock(payload), payload)

\* b'abababababab' and the deflate stream zlib writes for it: two literals
\* and a match, in the fixed code
P_Match == <<97, 98, 97, 98, 97, 98, 97, 98, 97, 98, 97, 98>>

D_Match == <<75, 76, 74, 132, 67, 0>>

\* b'aabbaaacadaccbbccdaa' and the deflate stream zlib writes for it: a
\* block that sends its own Huffman codes
P_Dynamic ==
    <<97, 97, 98, 98, 97, 97, 97, 99, 97, 100, 97, 99, 99, 98, 98, 99, 99, 100, 97, 97>>

D_Dynamic ==
    <<5, 193, 1, 1, 0, 0, 8, 195, 160, 172, 124, 246, 207, 32, 176, 33, 167, 182, 58, 30>>

\* a payload whose last eight bytes are its own CRC-32 and length
P_SelfChecked == <<40, 8, 27, 115, 17, 34, 51, 68, 12, 0, 0, 0>>

\* a payload that itself holds the magic number and a closing sequence
P_Tricky == <<97>> \o GZIP_MAGIC_NUMBER \o HTML_CLOSE \o <<59>>

\* s with the byte at 1-based position i replaced by b
WithByte(s, i, b) == [s EXCEPT ![i] = b]

\* s without its last n bytes
DropLast(s, n) == SubSeq(s, 1, Len(s) - n)

\* a second, complete stub
SecondStub == HTML_OPEN \o <<121>> \o HTML_CLOSE

\* The bytes that follow the stub (or the filler when there is no stub).
TailBytes(name) ==
    LET gz == GzipCompress(P_VarX)
        huff == GzipCompressHuffman(P_VarX)
    IN  CASE name = "gz"            -> gz
          [] name = "gz huff"       -> huff
          [] name = "gz match"      -> GzipMember(D_Match, P_Match)
          [] name = "gz dyn"        -> GzipMember(D_Dynamic, P_Dynamic)
          [] name = "huff cut"      -> DropLast(huff, 3)
          [] name = "huff cut data" -> DropLast(huff, 12)
          [] name = "huff bad crc"  -> WithByte(huff, Len(huff) - 7, (huff[Len(huff) - 7] + 1) % 256)
          [] name = "huff far"      -> GzipMember(<<75, 76, 74, 196, 67, 0>>, P_Match)
          [] name = "dyn bad"       -> GzipHeader \o <<5, 255, 255, 255, 255>>
          [] name = "bad method cut" -> <<31, 139, 7>>
          [] name = "header only"   -> <<31, 139, 8, 24, 0, 0, 0, 0, 0, 0, 0, 0>>
          [] name = "no trailer"    -> GzipHeader \o StoredBlock(P_SelfChecked)
          [] name = "short stored"  -> GzipHeader \o <<1, 13, 0, 242, 255>> \o P_SelfChecked
          [] name = "gz empty"      -> GzipCompress(<<>>)
          [] name = "gz tricky"     -> GzipCompress(P_Tricky)
          [] name = "gz zeros"      -> gz \o <<0, 0>>
          [] name = "gz two"        -> gz \o GzipCompress(P_Tricky)
          [] name = "gz named"      -> <<31, 139, 8, 8, 0, 0, 0, 0, 4, 3, 97, 46, 106, 115, 0>>
                                       \o SliceFrom(gz, 10)
          [] name = "junk gz"       -> <<13, 10>> \o gz
          [] name = "cut trailer"   -> DropLast(gz, 3)
          [] name = "cut data"      -> DropLast(gz, 10)
          [] name = "cut header"    -> SliceTo(gz, 4)
          [] name = "magic only"    -> GZIP_MAGIC_NUMBER
          [] name = "bad crc"       -> WithByte(gz, Len(gz) - 7, (gz[Len(gz) - 7] + 1) % 256)
          [] name = "bad size"      -> WithByte(gz, Len(gz) - 3, 9)
          [] name = "bad method"    -> WithByte(gz, 3, 7)
          [] name = "garbage"       -> gz \o <<120, 120>>
          [] name = "bad block"     -> WithByte(gz, 11, 7)
          [] name = "bad len"       -> WithByte(gz, 12, 9)
          [] name = "bad then good" -> <<31, 139, 7>> \o gz
          [] name = "gz stub"       -> gz \o SecondStub
          [] name = "plain"         -> P_VarX
          [] name = "plain stub"    -> P_VarX \o SecondStub \o <<122>>
          [] name = "close"         -> <<97>> \o HTML_CLOSE \o <<98>>
          [] name = "open"          -> HTML_OPEN \o <<97, 98, 99>>

\* tails that are a complete gzip stream, possibly after leftover bytes
ValidTails ==
    {"gz", "gz empty", "gz tricky", "gz zeros", "gz two", "gz named", "junk gz",
     "gz huff", "gz match", "gz dyn"}

\* tails that hold the magic number but cannot be fully inflated
DamagedTails ==
    {"cut trailer", "cut data", "cut header", "magic only", "bad crc", "bad size",
     "bad method", "garbage", "bad block", "bad len", "bad then good",
     "huff cut", "huff cut data", "huff bad crc", "huff far", "dyn bad", "bad method cut",
     "header only", "no trailer", "short stored"}

\* tails without the magic number
PlainTails == {"plain", "plain stub", "close", "open"}

TailNames == ValidTails \cup DamagedTails \cup PlainTails \cup {"gz stub"}

\* Bodies whose carved rest holds one complete gzip stream after leftover
\* bytes: in "gz stub" without a leading stub the stub after the stream is
\* the one carved out.
ValidShape(stub, tail) == tail \in ValidTails \/ (tail = "gz stub" /\ ~stub)

\* Bodies whose carved rest holds the magic number but no complete stream
DamagedShape(stub, tail) == tail \in DamagedTails \/ (tail = "gz stub" /\ stub)

\* what a valid tail was compressed from
Payload(name) ==
    CASE name = "gz empty"  -> <<>>
      [] name = "gz tricky" -> P_Tricky
      [] name = "gz two"    -> P_VarX \o P_Tricky
      [] name = "gz match"  -> P_Match
      [] name = "gz dyn"    -> P_Dynamic
      [] OTHER              -> P_VarX

\* The body of a given length: with a stub, stub_html + tail, the stub's
\* interior filled to reach the length; without, filler and then the tail.
Body(stub, tail, len) ==
    IF stub
    THEN HTML_OPEN \o Fill(len - Len(HTML_OPEN) - Len(HTML_CLOSE) - Len(TailBytes(tail)))
         \o HTML_CLOSE \o TailBytes(tail)
    ELSE Fill(len - Len(TailBytes(tail))) \o TailBytes(tail)

\* original_headers for a named status line and header list ("none": empty)
Headers(status, hdrs) ==
    IF status = "none" THEN <<>> ELSE <<StatusLine(status)>> \o HeaderLines(hdrs)

\* how far past the threshold the explored body lengths go
ExtraLen == 1

\* how many messages the host has in flight at once
NumMsgs == 2

Msgs == 1..NumMsgs

Lengths == {BODY_THRESHOLD + k : k \in 0..ExtraLen}

\* IBurpExtenderCallbacks.TOOL_REPEATER, a tool other than the Proxy
TOOL_REPEATER == 64

\* Proxy responses: every header list and body shape under a 302, and
\* every status line (or no header at all) over a few bodies; and the same
\* 302 response seen as a request or from another tool.
Inputs ==
    {[status |-> "302 Found", hdrs |-> h, stub |-> s, tail |-> t, len |-> n,
      isRequest |-> FALSE, tool |-> TOOL_PROXY, url |-> "ascii"] :
        h \in HeaderNames, s \in BOOLEAN, t \in TailNames, n \in Lengths}
    \cup
    {[status |-> st, hdrs |-> h, stub |-> s, tail |-> t, len |-> n,
      isRequest |-> FALSE, tool |-> TOOL_PROXY, url |-> "ascii"] :
        st \in StatusNames \cup {"none"}, h \in {"js", "html"}, s \in BOOLEAN,
        t \in {"gz", "plain", "bad crc"}, n \in Lengths}
    \cup
    {[status |-> "302 Found", hdrs |-> "js", stub |-> TRUE, tail |-> "gz",
      len |-> BODY_THRESHOLD + 1, isRequest |-> r, tool |-> tf, url |-> "ascii"] :
        r \in BOOLEAN, tf \in {TOOL_PROXY, TOOL_REPEATER}}
    \cup
    {[status |-> "302 Found", hdrs |-> h, stub |-> TRUE, tail |-> t,
      len |-> BODY_THRESHOLD + 1, isRequest |-> FALSE, tool |-> TOOL_PROXY,
      url |-> "latin"] :
        h \in {"js", "html"}, t \in {"gz", "plain", "bad crc"}}

\* the messages run against each other when several are in flight
ConcInputs ==
    {[status |-> "302 Found", hdrs |-> "js", stub |-> TRUE, tail |-> t,
      len |-> BODY_THRESHOLD + 1, isRequest |-> FALSE, tool |-> TOOL_PROXY,
      url |-> "ascii"] : t \in {"gz", "bad crc"}}
    \cup
    {[status |-> "302 Found", hdrs |-> "html", stub |-> TRUE, tail |-> "gz",
      len |-> BODY_THRESHOLD + 1, isRequest |-> FALSE, tool |-> TOOL_PROXY,
      url |-> "latin"],
     [status |-> "302 Latin", hdrs |-> "js", stub |-> TRUE, tail |-> "gz",
      len |-> BODY_THRESHOLD + 1, isRequest |-> FALSE, tool |-> TOOL_PROXY,
      url |-> "ascii"],
     [status |-> "200 OK", hdrs |-> "js", stub |-> FALSE, tail |-> "plain",
      len |-> BODY_THRESHOLD + 1, isRequest |-> FALSE, tool |-> TOOL_PROXY,
      url |-> "ascii"]}

\* a slot on which the host delivers nothing
NoMessage ==
    [status |-> "none", hdrs |-> "bare", stub |-> FALSE, tail |-> "plain",
     len |-> 0, isRequest |-> TRUE, tool |-> TOOL_REPEATER, url |-> "ascii"]

\* messageInfo.getResponse() split by analyzeResponse: header lines and body
Original(g) ==
    IF g = NoMessage THEN [headers |-> <<>>, body |-> <<>>]
    ELSE [headers |-> Headers(g.status, g.hdrs), body |-> Body(g.stub, g.tail, g.len)]

(***************************************************************************)
(* State.                                                                  *)
(***************************************************************************)
VARIABLES
    callbacks,    \* self._callbacks: "none" until registration
    helpers,      \* self._helpers
    given,        \* per message: the delivered input (never changes)
    runtime,      \* the Python runtime the host runs the listener on
    pc,           \* per message: where its processHttpMessage call stands
    response,     \* per message: messageInfo's response, [headers, body]
    candidate,    \* per message: the outcome of the test of line 59
    new_headers,  \* per call frame: local new_headers
    new_body,     \* per call frame: local new_body
    modified,     \* per call frame: local modified
    outcome,      \* per message: "none", "skipped", "succeeded" or "failed"
    raised,       \* per message: the exception that left the call, or "none"
    events,       \* per message: calls made on messageInfo and callbacks, in order
    printed,      \* per message: diagnostics printed
    highlight,    \* per message: messageInfo's highlight
    comment,      \* per message: messageInfo's comment
    alerts        \* the host's alert sink: issueAlert calls in order

vars == <<callbacks, helpers, given, runtime, pc, response, candidate, new_headers, new_body,
          modified, outcome, raised, events, printed, highlight, comment, alerts>>

hostVars == <<callbacks, helpers, given, runtime>>
localVars == <<new_headers, new_body, modified>>
sideVars == <<events, highlight, comment, alerts>>

\* The locals kept on the listener object instead: one frame for all calls
SharedFrame(m) == 1

\* The frame holding a call's locals: each call has its own.
Frame(m) == m

\* request_info.getUrl() of a message
UrlOf(m) == m

\* the calls of the "if modified:" block, in program order
NotifyCalls == <<"setResponse", "setHighlight", "setComment", "issueAlert">>

Terminal == {"Rewritten", "Unchanged"}

\* messageInfo's comment before any setComment
NoComment == [text |-> "", url |-> 0]

InitState(rt, gs) ==
    /\ callbacks = "none"
    /\ helpers = "none"
    /\ given = gs
    /\ runtime = rt
    /\ pc = [m \in Msgs |-> IF gs[m] = NoMessage THEN "Idle" ELSE "Start"]
    /\ response = [m \in Msgs |-> Original(gs[m])]
    /\ candidate = [m \in Msgs |-> FALSE]
    /\ new_headers = [m \in Msgs |-> <<>>]
    /\ new_body = [m \in Msgs |-> <<>>]
    /\ modified = [m \in Msgs |-> FALSE]
    /\ outcome = [m \in Msgs |-> "none"]
    /\ raised = [m \in Msgs |-> "none"]
    /\ events = [m \in Msgs |-> <<>>]
    /\ printed = [m \in Msgs |-> <<>>]
    /\ highlight = [m \in Msgs |-> "none"]
    /\ comment = [m \in Msgs |-> NoComment]
    /\ alerts = <<>>

\* one message in flight
Init ==
    \E rt \in Runtimes, g \in Inputs :
        InitState(rt, [m \in Msgs |-> IF m = 1 THEN g ELSE NoMessage])

\* every slot holds a message in flight
InitConc == \E rt \in Runtimes, gs \in [Msgs -> ConcInputs] : InitState(rt, gs)

(***************************************************************************)
(* Operations.                                                             *)
(***************************************************************************)
\* registerExtenderCallbacks: the handles are stored, the listener registered
RegisterExtenderCallbacks ==
    /\ callbacks = "none"
    /\ callbacks' = "burp"
    /\ helpers' = "helpers"
    /\ UNCHANGED <<given, runtime, pc, response, candidate, localVars, outcome, raised,
                   printed, sideVars>>

\* processHttpMessage up to the candidate test: the guard on messageIsRequest
\* and toolFlag, the copies of headers and body, and the classification
Classify(m) ==
    /\ callbacks = "burp"
    /\ pc[m] = "Start"
    /\ LET open == ~given[m].isRequest /\ given[m].tool = TOOL_PROXY
           hs == response[m].headers
           b == response[m].body
       IN  IF open
           THEN /\ new_headers' = [new_headers EXCEPT ![Frame(m)] = hs]
                /\ new_body' = [new_body EXCEPT ![Frame(m)] = b]
                /\ modified' = [modified EXCEPT ![Frame(m)] = FALSE]
                /\ candidate' = [candidate EXCEPT ![m] = IsCandidate(hs, b)]
           ELSE /\ UNCHANGED localVars
                /\ candidate' = [candidate EXCEPT ![m] = FALSE]
    /\ pc' = [pc EXCEPT ![m] = "Classified"]
    /\ UNCHANGED <<hostVars, response, outcome, raised, printed, sideVars>>

\* a non-candidate falls through to "if modified:" with modified unset
PassThrough(m) ==
    /\ pc[m] = "Classified"
    /\ ~candidate[m]
    /\ pc' = [pc EXCEPT ![m] = "Unchanged"]
    /\ UNCHANGED <<hostVars, response, candidate, localVars, outcome, raised,
                   printed, sideVars>>

\* Action 1 on a candidate whose status line the diagnostic of line 67
\* cannot format: modified is set and the status line rewritten in the
\* local header list, then UnicodeEncodeError leaves the handler before
\* anything is printed
StatusFormatFailed(m) ==
    /\ pc[m] = "Classified"
    /\ candidate[m]
    /\ LET f == Frame(m)
           hs == new_headers[f]
       IN  /\ FormatRaises(runtime, Strip(hs[1]))
           /\ modified' = [modified EXCEPT ![f] = TRUE]
           /\ new_headers' = [new_headers EXCEPT ![f] =
                                 [hs EXCEPT ![1] = RewriteStatusLine(hs[1])]]
    /\ raised' = [raised EXCEPT ![m] = "UnicodeEncodeError"]
    /\ pc' = [pc EXCEPT ![m] = "Unchanged"]
    /\ UNCHANGED <<hostVars, response, candidate, new_body, outcome, printed, sideVars>>

\* Actions 1 and 2 on a candidate: modified set, the status line rewritten
\* in the local header list, the stub carved out of the local body
CarveBody(m) ==
    /\ pc[m] = "Classified"
    /\ candidate[m]
    /\ ~FormatRaises(runtime, Strip(new_headers[Frame(m)][1]))
    /\ LET f == Frame(m)
           hs == new_headers[f]
           b == new_body[f]
       IN  /\ modified' = [modified EXCEPT ![f] = TRUE]
           /\ new_headers' = [new_headers EXCEPT ![f] =
                                 [hs EXCEPT ![1] = RewriteStatusLine(hs[1])]]
           /\ new_body' = [new_body EXCEPT ![f] = Carve(b)]
           /\ printed' = [printed EXCEPT ![m] =
                             @ \o <<"Status changed">>
                               \o (IF StubSpan(b)[1] # -1 THEN <<"Removed">> ELSE <<>>)]
    /\ pc' = [pc EXCEPT ![m] = "Carved"]
    /\ UNCHANGED <<hostVars, response, candidate, outcome, raised, sideVars>>

\* Action 3 not taken: no JavaScript content type, or no magic number
DecompressSkipped(m) ==
    /\ pc[m] = "Carved"
    /\ LET f == Frame(m)
       IN  \/ ~IsJsTarget(new_headers[f])
           \/ Find(new_body[f], GZIP_MAGIC_NUMBER) = -1
    /\ outcome' = [outcome EXCEPT ![m] = "skipped"]
    /\ pc' = [pc EXCEPT ![m] = "DecompressionAttempted"]
    /\ UNCHANGED <<hostVars, response, candidate, localVars, raised, printed, sideVars>>

\* Action 3, the read succeeds: body replaced, Content-Encoding lines dropped
DecompressSucceeded(m) ==
    /\ pc[m] = "Carved"
    /\ \E f \in {Frame(m)} :
       \E start_index \in {Find(new_body[f], GZIP_MAGIC_NUMBER)} :
           /\ IsJsTarget(new_headers[f])
           /\ start_index # -1
           /\ \E r \in {GzipRead(runtime, SliceFrom(new_body[f], start_index))} :
                  /\ r.kind = "ok"
                  /\ new_body' = [new_body EXCEPT ![f] = r.out]
                  /\ new_headers' = [new_headers EXCEPT ![f] = StripContentEncoding(@)]
    /\ printed' = [printed EXCEPT ![m] = @ \o <<"Found GZIP data", "decompressed">>]
    /\ outcome' = [outcome EXCEPT ![m] = "succeeded"]
    /\ pc' = [pc EXCEPT ![m] = "DecompressionAttempted"]
    /\ UNCHANGED <<hostVars, response, candidate, modified, raised, sideVars>>

\* Action 3, the read raises: an IOError is caught, modified is reverted and
\* the failure printed; any other exception (zlib.error, EOFError,
\* struct.error, TypeError) leaves the handler
DecompressFailed(m) ==
    /\ pc[m] = "Carved"
    /\ \E f \in {Frame(m)} :
       \E start_index \in {Find(new_body[f], GZIP_MAGIC_NUMBER)} :
           /\ IsJsTarget(new_headers[f])
           /\ start_index # -1
           /\ \E exc \in {GzipRead(runtime, SliceFrom(new_body[f], start_index)).kind} :
                /\ exc # "ok"
                /\ IF Caught(exc)
                   THEN /\ modified' = [modified EXCEPT ![f] = FALSE]
                        /\ printed' = [printed EXCEPT ![m] =
                                          @ \o <<"Found GZIP data", "GZIP decompression failed">>]
                        /\ UNCHANGED raised
                   ELSE /\ raised' = [raised EXCEPT ![m] = exc]
                        /\ printed' = [printed EXCEPT ![m] = @ \o <<"Found GZIP data">>]
                        /\ UNCHANGED modified
    /\ outcome' = [outcome EXCEPT ![m] = "failed"]
    /\ pc' = [pc EXCEPT ![m] = "DecompressionAttempted"]
    /\ UNCHANGED <<hostVars, response, candidate, new_headers, new_body, sideVars>>

\* the "if modified:" block: the new response is built and set, then the
\* highlight, the comment and the alert
Rewrite(m) ==
    /\ pc[m] = "DecompressionAttempted"
    /\ raised[m] = "none"
    /\ modified[Frame(m)]
    /\ ~FormatRaises(runtime, UrlString(given[m].url))
    /\ response' = [response EXCEPT ![m] =
                       [headers |-> new_headers[Frame(m)], body |-> new_body[Frame(m)]]]
    /\ events' = [events EXCEPT ![m] = @ \o NotifyCalls]
    /\ highlight' = [highlight EXCEPT ![m] = "cyan"]
    /\ comment' = [comment EXCEPT ![m] =
                      [text |-> "Redirect modified and decompressed for URL: ",
                       url |-> UrlOf(m)]]
    /\ alerts' = Append(alerts, [text |-> "Modified response for URL: ", url |-> UrlOf(m)])
    /\ pc' = [pc EXCEPT ![m] = "Rewritten"]
    /\ UNCHANGED <<hostVars, candidate, localVars, outcome, raised, printed>>

\* the "if modified:" block when the comment of line 120 cannot format the
\* URL: the new response and the highlight are set, then UnicodeEncodeError
\* leaves the handler before setComment and issueAlert
NotifyFormatFailed(m) ==
    /\ pc[m] = "DecompressionAttempted"
    /\ raised[m] = "none"
    /\ modified[Frame(m)]
    /\ FormatRaises(runtime, UrlString(given[m].url))
    /\ response' = [response EXCEPT ![m] =
                       [headers |-> new_headers[Frame(m)], body |-> new_body[Frame(m)]]]
    /\ events' = [events EXCEPT ![m] = @ \o SubSeq(NotifyCalls, 1, 2)]
    /\ highlight' = [highlight EXCEPT ![m] = "cyan"]
    /\ raised' = [raised EXCEPT ![m] = "UnicodeEncodeError"]
    /\ pc' = [pc EXCEPT ![m] = "Rewritten"]
    /\ UNCHANGED <<hostVars, candidate, localVars, outcome, printed, comment, alerts>>

\* the call ends without the "if modified:" block: modified was reverted,
\* or an exception left the handler before reaching it
Abort(m) ==
    /\ pc[m] = "DecompressionAttempted"
    /\ raised[m] # "none" \/ ~modified[Frame(m)]
    /\ pc' = [pc EXCEPT ![m] = "Unchanged"]
    /\ UNCHANGED <<hostVars, response, candidate, localVars, outcome, raised,
                   printed, sideVars>>

Step(m) ==
    \/ Classify(m)
    \/ PassThrough(m)
    \/ StatusFormatFailed(m)
    \/ CarveBody(m)
    \/ DecompressSkipped(m)
    \/ DecompressSucceeded(m)
    \/ DecompressFailed(m)
    \/ Rewrite(m)
    \/ NotifyFormatFailed(m)
    \/ Abort(m)

Next ==
    \/ RegisterExtenderCallbacks
    \/ \E m \in Msgs : Step(m)

\* one message in flight
Spec == Init /\ [][Next]_vars

\* one message in flight; a call that has started runs to its end
FairSpec == Init /\ [][Next]_vars /\ WF_vars(Next)

\* several messages in flight, their calls interleaved
ConcSpec == InitConc /\ [][Next]_vars

(***************************************************************************)
(* Properties.                                                             *)
(***************************************************************************)
\* the message as the host received it
Orig(m) == Original(given[m])

\* a response passing through the Proxy
Processed(m) == ~given[m].isRequest /\ given[m].tool = TOOL_PROXY

\* the numeric status code of a named status line (0: none to read)
StatusCode(name) ==
    CASE name = "302 Found"  -> 302
      [] name = "301 Moved"  -> 301
      [] name = "302"        -> 302
      [] name = "200 OK"     -> 200
      [] name = "404"        -> 404
      [] name = "3000 Found" -> 3000
      [] name = "302 Latin"  -> 302
      [] name = "302 nbsp"   -> 302
      [] OTHER               -> 0

\* a 3xx response with a body over the threshold
IsRedirectOverThreshold(m) ==
    /\ Processed(m)
    /\ StatusCode(given[m].status) \in 300..399
    /\ given[m].len > 1000

\* the header line's name: the bytes before its first colon, lower-cased
HeaderName(h) ==
    LET colons == {i \in 1..Len(h) : h[i] = 58}
    IN  IF colons = {} THEN <<>> ELSE Lower(SubSeq(h, 1, Min(colons) - 1))

\* the header lines other than the status line
OtherHeaders(hs) == IF hs = <<>> THEN <<>> ELSE SubSeq(hs, 2, Len(hs))

\* the protocol token of the original status line followed by " 200 OK"
StatusLine200(m) ==
    LET line == Orig(m).headers[1]
        sp == {i \in 1..Len(line) : line[i] = 32}
    IN  SubSeq(line, 1, Min(sp) - 1) \o <<32, 50, 48, 48, 32, 79, 75>>

TheNotifyCalls == <<"setResponse", "setHighlight", "setComment", "issueAlert">>

\* 'content-encoding'
ContentEncodingName ==
    <<99, 111, 110, 116, 101, 110, 116, 45, 101, 110, 99, 111, 100, 105, 110, 103>>

\* C1: a 3xx response over the threshold with a JavaScript content type
\* whose carved body holds the magic number but no complete stream is never
\* touched: no call is made on the message, its headers and body stay those
\* of the input, and its call ends Unchanged.
C1_FailureContainment ==
    \A m \in Msgs :
        (/\ IsRedirectOverThreshold(m)
         /\ JsHeaders(given[m].hdrs)
         /\ DamagedShape(given[m].stub, given[m].tail))
        => /\ response[m] = Orig(m)
           /\ events[m] = <<>>
           /\ pc[m] # "Rewritten"
           /\ pc[m] \in Terminal => outcome[m] = "failed"

\* C2: a failed read never leaves the call as an exception: it is caught,
\* the failure is printed and the call returns normally.
C2_NoFaultEscapes ==
    \A m \in Msgs :
        outcome[m] = "failed"
        => /\ raised[m] = "none"
           /\ \E i \in 1..Len(printed[m]) : printed[m][i] = "GZIP decompression failed"

\* C3: a response with no header, a one-token status line, a status code
\* outside 300..399 or a body of at most 1000 bytes is left alone: no
\* setResponse, highlight, comment or alert, and no error.
C3_OnlyCandidatesRewritten ==
    \A m \in Msgs :
        (\/ given[m].status \in {"none", "one token"}
         \/ StatusCode(given[m].status) \notin 300..399
         \/ given[m].len <= 1000)
        => /\ response[m] = Orig(m)
           /\ events[m] = <<>>
           /\ highlight[m] = "none"
           /\ comment[m] = NoComment
           /\ \A i \in 1..Len(alerts) : alerts[i].url # m
           /\ raised[m] = "none"
           /\ pc[m] # "Rewritten"

\* C4: a rewritten 3xx response over the threshold has the status line
\* "<protocol> 200 OK", and its other header lines are the original ones,
\* in order, with at most the Content-Encoding lines removed.
C4_StatusLineAndHeaders ==
    \A m \in Msgs :
        (IsRedirectOverThreshold(m) /\ pc[m] = "Rewritten")
        => /\ response[m].headers[1] = StatusLine200(m)
           /\ LET was == OtherHeaders(Orig(m).headers)
                  now == OtherHeaders(response[m].headers)
              IN  \/ now = was
                  \/ now = SelectSeq(was, LAMBDA h :
                                 HeaderName(h) # ContentEncodingName)

\* C5: a 3xx response over the threshold whose body is a stub followed by
\* gzip_compress(payload), with a JavaScript Content-Type line, ends
\* Rewritten with body = payload and no header named Content-Encoding.
C5_RoundTrip ==
    \A m \in Msgs :
        (/\ IsRedirectOverThreshold(m)
         /\ JsHeaders(given[m].hdrs)
         /\ given[m].stub
         /\ given[m].tail \in {"gz", "gz empty", "gz tricky", "gz huff", "gz match", "gz dyn"}
         /\ pc[m] \in Terminal)
        => /\ pc[m] = "Rewritten"
           /\ response[m].body = Payload(given[m].tail)
           /\ \A i \in 1..Len(response[m].headers) :
                  HeaderName(response[m].headers[i]) # ContentEncodingName

\* C6: a 3xx response over the threshold on which decompression is skipped
\* ends Rewritten with the status line "<protocol> 200 OK", the carved body,
\* and every header line kept.
C6_SkippedStillRewritten ==
    \A m \in Msgs :
        (/\ IsRedirectOverThreshold(m)
         /\ pc[m] \in Terminal
         /\ outcome[m] = "skipped")
        => /\ pc[m] = "Rewritten"
           /\ response[m].headers[1] = StatusLine200(m)
           /\ response[m].body = Carve(Orig(m).body)
           /\ OtherHeaders(response[m].headers) = OtherHeaders(Orig(m).headers)

\* The part of C6 about the body and the header lines after the status line
C6_BodyAndHeadersKept ==
    \A m \in Msgs :
        (/\ IsRedirectOverThreshold(m)
         /\ pc[m] \in Terminal
         /\ outcome[m] = "skipped")
        => /\ pc[m] = "Rewritten"
           /\ response[m].body = Carve(Orig(m).body)
           /\ OtherHeaders(response[m].headers) = OtherHeaders(Orig(m).headers)

\* C7: the highlight, the comment and the alert are made exactly when the
\* message is rewritten, once each and after setResponse; a call that ends
\* Unchanged makes none.
C7_NotifyIffRewritten ==
    \A m \in Msgs :
        /\ events[m] \in {<<>>, TheNotifyCalls}
        /\ events[m] = TheNotifyCalls <=> pc[m] = "Rewritten"
        /\ highlight[m] = (IF pc[m] = "Rewritten" THEN "cyan" ELSE "none")
        /\ comment[m] = (IF pc[m] = "Rewritten"
                         THEN [text |-> "Redirect modified and decompressed for URL: ",
                               url |-> m]
                         ELSE NoComment)
        /\ Cardinality({i \in 1..Len(alerts) : alerts[i].url = m})
             = (IF pc[m] = "Rewritten" THEN 1 ELSE 0)
        /\ \A i \in 1..Len(alerts) : alerts[i].text = "Modified response for URL: "

\* C8: whatever the interleaving, a finished call leaves the decision and
\* the message content it leaves when run alone.
C8_Independent ==
    \A m \in Msgs :
        pc[m] \in Terminal
        => [decision |-> pc[m], headers |-> response[m].headers,
            body |-> response[m].body]
           = ProcessAlone(runtime, given[m].tool, given[m].isRequest,
                          Orig(m).headers, Orig(m).body)

\* C8 witness: two different messages in flight, one call finished with a
\* rewrite while the other stands between carving and decompression
C8_Witness ==
    /\ pc[1] = "Carved"
    /\ pc[2] = "Rewritten"
    /\ given[1].tail = "bad crc"
    /\ given[2].tail = "gz"
    /\ given[2].hdrs = "js"
    /\ response[2].body = P_VarX
    /\ new_body[1] = TailBytes("bad crc")

\* the moves of one call allowed by the state machine
AllowedMove(m) ==
    \/ pc'[m] = pc[m]
    \/ pc[m] = "Start" /\ pc'[m] = "Classified"
    \/ pc[m] = "Classified" /\ ~candidate[m] /\ pc'[m] = "Unchanged"
    \/ pc[m] = "Classified" /\ candidate[m] /\ pc'[m] = "Carved"
    \/ /\ pc[m] = "Carved"
       /\ pc'[m] = "DecompressionAttempted"
       /\ outcome'[m] \in {"skipped", "succeeded", "failed"}
    \/ /\ pc[m] = "DecompressionAttempted"
       /\ outcome[m] \in {"skipped", "succeeded"}
       /\ pc'[m] = "Rewritten"
    \/ /\ pc[m] = "DecompressionAttempted"
       /\ outcome[m] = "failed"
       /\ pc'[m] = "Unchanged"

\* a call that has ended changes nothing any more
TerminalIsFinal(m) ==
    pc[m] \in Terminal
    => /\ pc'[m] = pc[m]
       /\ response'[m] = response[m]
       /\ outcome'[m] = outcome[m]
       /\ events'[m] = events[m]

\* C9: a call moves Start -> Classified, then to Unchanged (not a candidate)
\* or Carved -> DecompressionAttempted; from there to Rewritten after a
\* skipped or succeeded read and to Unchanged after a failed one; the two
\* end states have no successor; and every call that starts ends.
C9_StateMachine ==
    /\ [][\A m \in Msgs : AllowedMove(m) /\ TerminalIsFinal(m)]_vars
    /\ \A m \in Msgs : (pc[m] = "Start") ~> (pc[m] \in Terminal)

\* whether pattern p lies in b at 0-based offset i
LiesAt(b, p, i) == i >= 0 /\ i + Len(p) <= Len(b) /\ SubSeq(b, i + 1, i + Len(p)) = p

\* whether b holds an opening sequence with a closing sequence after it
HasStub(b) ==
    \E o \in 0..(Len(b) - 66) :
        /\ LiesAt(b, HTML_OPEN, o)
        /\ \E c \in (o + 52)..(Len(b) - 14) : LiesAt(b, HTML_CLOSE, c)

\* whether c is b without the span that starts at b's first opening
\* sequence and ends with the first closing sequence after it
CarvedFrom(b, c) ==
    IF ~HasStub(b) THEN c = b
    ELSE
      LET n == Len(b) - Len(c)
      IN  /\ n >= 66
          /\ \E p \in 0..Len(c) :
                /\ LiesAt(b, HTML_OPEN, p)
                /\ LiesAt(b, HTML_CLOSE, p + n - 14)
                /\ SubSeq(b, 1, p) = SubSeq(c, 1, p)
                /\ SubSeq(b, p + n + 1, Len(b)) = SubSeq(c, p + 1, Len(c))
                /\ \A i \in 0..(p - 1) : ~LiesAt(b, HTML_OPEN, i)
                /\ \A i \in (p + 52)..(p + n - 15) : ~LiesAt(b, HTML_CLOSE, i)

\* C10: the carved body is the body without the span from its first opening
\* sequence to the first closing sequence after it, all other bytes kept in
\* order; a body without such a span is kept as it is, and carving it again
\* changes nothing.
C10_CarveOnce ==
    \A m \in Msgs :
        pc[m] = "Carved"
        => /\ CarvedFrom(response[m].body, new_body[m])
           /\ ~HasStub(new_body[m]) => Carve(new_body[m]) = new_body[m]

\* C10 witness: the first stub is gone and the second one is still there
C10_Witness ==
    /\ pc[1] = "Carved"
    /\ given[1].stub
    /\ given[1].tail = "plain stub"
    /\ new_body[1] = P_VarX \o SecondStub \o <<122>>

====
